---- MODULE Spec2Model ----
(***************************************************************************)
(* Session lifecycle of the Excel interviewer: app/main.py driving the     *)
(* Redis session store (database/redis_db.py), the PostgreSQL report       *)
(* store (database/postgres_db.py), the evaluator (core/agent.py) and the  *)
(* question loader (utils/helpers.py).                                     *)
(*                                                                         *)
(* Python values carry their type in the field "kind": "dict" for a plain  *)
(* dict (what json.loads yields), "Question" / "Evaluation" for pydantic   *)
(* model instances, "None" for None.                                       *)
(***************************************************************************)
EXTENDS Integers, Sequences, FiniteSets, TLC

(* ---------------- bounds ---------------- *)
\* largest number of records in questions.json
MaxQuestions == 2
\* saturation of the counter of save_interview_report invocations
MaxReportCalls == 2
\* largest number of records of a questions.json handed to load_questions alone
MaxLoadRecords == 3

\* browser tabs whose script runs work on the same session_id
Clients == {"tab1", "tab2"}
\* datetime.now(): the timestamps are opaque to the program, which only stores
\* them; one value stands for the clock of a session, two tell the reports of
\* a twice-used session_id apart
Times == {"T1"}
ReportTimes == {"T1", "T2"}

(* ---------------- program constants ---------------- *)
\* Evaluation.score bounds
ScoreMin == 1
ScoreMax == 5
\* score of the fallback Evaluation
SentinelScore == 1
\* absence of the optional keys start_time / end_time of the state dict
NoTime == "absent"

NoneVal == [kind |-> "None"]
SessionId == "s1"
SessionIds == {"s1", "s2"}
Formulas == {"=SUM(A:A)"}
SentinelFeedback == "An error occurred while evaluating the response."

(* ---------------- tables (DataFrames) ---------------- *)
\* a table is an ordered sequence of columns, each with its name, the dtype
\* pandas gives it ("int64" when every cell is an integer literal, "float64"
\* when a cell is written as a float or is missing) and its cell values
SolutionTable ==
    << [name |-> "A", dtype |-> "int64", cells |-> <<1, 2>>],
       [name |-> "B", dtype |-> "int64", cells |-> <<3, 4>>] >>
WrongCellTable ==
    << [name |-> "A", dtype |-> "int64", cells |-> <<1, 2>>],
       [name |-> "B", dtype |-> "int64", cells |-> <<3, 5>>] >>
EditedTables == {SolutionTable, WrongCellTable}

\* pandas DataFrame.equals: the same column labels in the same order, and
\* column by column the same dtype and the same cells
DataFrameEquals(a, b) ==
    /\ Len(a) = Len(b)
    /\ \A i \in 1..Len(a) : a[i].name = b[i].name
    /\ \A i \in 1..Len(a) : a[i].dtype = b[i].dtype /\ a[i].cells = b[i].cells

(* ---------------- pydantic models ---------------- *)
NewQuestion(i) == [kind |-> "Question", id |-> i, solution_data |-> SolutionTable]

\* BaseModel.model_dump(): the plain dict of a model instance
model_dump(o) == [o EXCEPT !.kind = "dict"]

\* Question(**q): a Question instance from a dict of its fields
QuestionFromDict(q) == [q EXCEPT !.kind = "Question"]

\* Evaluation(**e): validation of score (ge=1, le=5); the caller tests
\* EvaluationValid first, a failed validation raises ValidationError
EvaluationValid(e) == e.kind = "dict" /\ e.has_score /\ e.score >= ScoreMin /\ e.score <= ScoreMax
EvaluationFromDict(e) ==
    [kind |-> "Evaluation", score |-> e.score, is_correct |-> e.is_correct,
     feedback |-> e.feedback]

(* ---------------- sequences ---------------- *)
RECURSIVE SumSeq(_)
SumSeq(s) == IF s = <<>> THEN 0 ELSE Head(s) + SumSeq(Tail(s))

(* ---------------- utils/helpers.py ---------------- *)
\* what questions.json can hold: no file, text that is not JSON, or a JSON
\* list whose records are a valid question ("ok"), an object that fails the
\* Question validation ("invalid") or a value that is not an object ("nondict")
RecordKinds == {"ok", "invalid", "nondict"}
CatalogSources ==
    {[kind |-> "missing", records |-> <<>>], [kind |-> "bad_json", records |-> <<>>]}
    \cup {[kind |-> "list", records |-> r] :
             r \in UNION {[1..n -> RecordKinds] : n \in 0..MaxQuestions}}

\* index of the first record that is not a valid question, 0 if none
FirstBad(records) ==
    IF \E i \in 1..Len(records) : records[i] # "ok"
    THEN CHOOSE i \in 1..Len(records) :
             records[i] # "ok" /\ \A j \in 1..(i - 1) : records[j] = "ok"
    ELSE 0

\* load_questions(): FileNotFoundError, JSONDecodeError and TypeError are
\* caught and turned into []; pydantic's ValidationError is not caught
load_questions(src) ==
    IF src.kind \in {"missing", "bad_json"}
    THEN [raised |-> "none", value |-> <<>>]
    ELSE LET b == FirstBad(src.records) IN
         IF b = 0
         THEN [raised |-> "none",
               value |-> [i \in 1..Len(src.records) |-> NewQuestion(i)]]
         ELSE IF src.records[b] = "nondict"
         THEN [raised |-> "none", value |-> <<>>]
         ELSE [raised |-> "ValidationError", value |-> <<>>]

(* ---------------- core/agent.py ---------------- *)
\* what self.chain.invoke does during a submit: raise, return a JSON object
\* that is no valid Evaluation, or return a valid one (AllResponses below
\* lists every behaviour)
Responses ==
    { [type |-> "raises", kind |-> "dict", has_score |-> FALSE, score |-> 0,
       is_correct |-> FALSE, feedback |-> ""],
      [type |-> "json", kind |-> "dict", has_score |-> TRUE, score |-> ScoreMax + 1,
       is_correct |-> TRUE, feedback |-> "fb"],
      [type |-> "json", kind |-> "dict", has_score |-> TRUE, score |-> 4,
       is_correct |-> TRUE, feedback |-> "fb"] }

SentinelEvaluation ==
    [kind |-> "Evaluation", score |-> SentinelScore, is_correct |-> FALSE,
     feedback |-> SentinelFeedback]

\* evaluate_formula with an Evaluation model that does not bound the score
evaluate_formula_NoRange(chainSet, resp) ==
    IF ~chainSet THEN NoneVal
    ELSE IF resp.type = "json" /\ resp.has_score
    THEN EvaluationFromDict(resp)
    ELSE SentinelEvaluation

\* ExcelAgent.evaluate_formula: chainSet is self.chain being set
evaluate_formula(chainSet, resp) ==
    IF ~chainSet THEN NoneVal
    ELSE IF resp.type = "json" /\ EvaluationValid(resp)
    THEN EvaluationFromDict(resp)
    ELSE SentinelEvaluation

(* ---------------- database/redis_db.py ---------------- *)
\* json.dumps(data, default=default_serializer): model instances become dicts
Dump(o) == IF o.kind = "dict" THEN o ELSE model_dump(o)
DumpAll(objs) == [i \in 1..Len(objs) |-> Dump(objs[i])]
serialize_data(data) ==
    [data EXCEPT !.questions = DumpAll(@), !.evaluations = DumpAll(@)]

\* _deserialize_data: questions and evaluations are re-hydrated into models
deserialize_data(doc) ==
    [doc EXCEPT !.questions = [i \in 1..Len(@) |-> QuestionFromDict(@[i])],
                !.evaluations = [i \in 1..Len(@) |-> EvaluationFromDict(@[i])]]

\* the initial_state dict of create_new_session
initial_state(questions) ==
    [kind |-> "dict", session_id |-> SessionId, current_question_index |-> 0,
     questions |-> questions, user_answers |-> <<>>, evaluations |-> <<>>,
     interview_started |-> FALSE, interview_finished |-> FALSE,
     start_time |-> NoTime, end_time |-> NoTime]

(* ---------------- database/postgres_db.py ---------------- *)
\* sum(scores) / len(scores) if scores else 0.0, kept as numerator/denominator
Mean(scores) ==
    IF scores = <<>> THEN [num |-> 0, den |-> 1]
    ELSE [num |-> SumSeq(scores), den |-> Len(scores)]

\* "\n".join(f"- {fb}" ...): one bullet line per feedback item
Bullet(fb) == <<"- ", fb>>
FeedbackSummary(items) == [i \in 1..Len(items) |-> Bullet(items[i])]

\* json.dumps(session_state) without a default: raises TypeError on any
\* pydantic model instance inside the state
JsonSerializable(st) ==
    /\ \A i \in 1..Len(st.questions) : st.questions[i].kind = "dict"
    /\ \A i \in 1..Len(st.evaluations) : st.evaluations[i].kind = "dict"

\* INSERT ... ON CONFLICT (session_id) DO UPDATE SET end_time, final_score,
\* feedback_summary, full_transcript
Upsert(table, p) ==
    IF \E r \in table : r.session_id = p.session_id
    THEN { IF r.session_id = p.session_id
           THEN [r EXCEPT !.end_time = p.end_time, !.final_score = p.final_score,
                          !.feedback_summary = p.feedback_summary,
                          !.full_transcript = p.full_transcript]
           ELSE r : r \in table }
    ELSE table \cup {p}

\* [e.get('score', 0) for e in evaluations], [e.get('feedback', '') for ...]
Scores(evaluations) == [i \in 1..Len(evaluations) |-> evaluations[i].score]
Feedbacks(evaluations) == [i \in 1..Len(evaluations) |-> evaluations[i].feedback]

\* save_interview_report lines 75-80 and 96-103: the row derived from the state
ReportParams(session_state, t) ==
    [session_id |-> session_state.session_id,
     start_time |-> session_state.start_time,
     end_time |-> t,
     final_score |-> Mean(Scores(session_state.evaluations)),
     feedback_summary |->
         FeedbackSummary(Feedbacks(session_state.evaluations)),
     full_transcript |-> session_state]

\* save_interview_report(session_state); pool is pg_pool being set, db what the
\* database does: "up", or a psycopg2.Error in "getconn" or in "execute".
\* e.get on an Evaluation instance raises AttributeError (line 75), json.dumps
\* of a state holding model instances raises TypeError (line 102); neither is
\* a psycopg2.Error, so both leave the function
save_interview_report(session_state, pool, table, db, t) ==
    LET same == [raised |-> "none", executed |-> FALSE, table |-> table] IN
    IF ~pool THEN same
    ELSE IF \E i \in 1..Len(session_state.evaluations) :
                session_state.evaluations[i].kind # "dict"
    THEN [same EXCEPT !.raised = "AttributeError"]
    ELSE IF db = "getconn" THEN same
    ELSE IF ~JsonSerializable(session_state)
    THEN [same EXCEPT !.raised = "TypeError"]
    ELSE IF db = "execute" THEN same
    ELSE [raised |-> "none", executed |-> TRUE,
          table |-> Upsert(table, ReportParams(session_state, t))]

(* ---------------- app/main.py: routing ---------------- *)
\* main(): which screen a run shows for the state it read
Route(session_state) ==
    IF session_state = NoneVal THEN "start_screen"
    ELSE IF session_state.interview_finished THEN "final_report_screen"
    ELSE IF session_state.interview_started THEN "interview_screen"
    ELSE "blank"

\* interview_screen lines 87-89: questions[q_index] raises IndexError
HasCurrentQuestion(st) ==
    st.current_question_index + 1 <= Len(st.questions)
CurrentQuestion(st) == st.questions[st.current_question_index + 1]

\* final_report_screen: e['score'] on an Evaluation instance raises TypeError
final_report_screen(st) ==
    IF st.evaluations = <<>> THEN "none"
    ELSE IF \E i \in 1..Len(st.evaluations) : st.evaluations[i].kind # "dict"
    THEN "TypeError"
    ELSE "none"

(* ---------------- state ---------------- *)
VARIABLES
    store,              \* Redis value under interview_session:<id>, NoneVal if absent
    interview_results,  \* rows of the PostgreSQL table interview_results
    chain,              \* excel_agent.chain is set (ChatOllama was constructed)
    pg_pool,            \* postgres_db.pg_pool is set (the pool was created)
    pg_db,              \* what the database does to the next report: "up", "getconn", "execute"
    pc,                 \* per tab: where its script run stands
    state,              \* per tab: the session_state dict of the run
    err,                \* per tab: the exception that ended the last run
    catalogLoad,        \* per tab: how load_questions went in the run
    reportCalls,        \* invocations of save_interview_report since the session was created
    response,           \* the backend behaviour of the last evaluate_formula call
    ai_evaluation,      \* what that call returned
    lastUpsert,         \* per session_id: the parameters of the last executed upsert
    questions_file,     \* content of data/questions.json at the last call of load_questions
    all_questions       \* outcome of that call: exception raised and list returned

vars == <<store, interview_results, chain, pg_pool, pg_db, pc, state, err, catalogLoad,
          reportCalls, response, ai_evaluation, lastUpsert,
          questions_file, all_questions>>

Unset == [kind |-> "unset"]

Init ==
    /\ store = NoneVal
    /\ interview_results = {}
    /\ chain \in BOOLEAN
    /\ pg_pool \in BOOLEAN
    /\ pg_db = "up"
    /\ pc = [c \in Clients |-> "idle"]
    /\ state = [c \in Clients |-> NoneVal]
    /\ err = [c \in Clients |-> "none"]
    /\ catalogLoad = [c \in Clients |-> "unset"]
    /\ reportCalls = 0
    /\ response = Unset
    /\ ai_evaluation = Unset
    /\ lastUpsert = [s \in SessionIds |-> NoneVal]
    /\ questions_file = Unset
    /\ all_questions = Unset

\* SessionManager.get_session_state
get_session_state(stored) ==
    IF stored = NoneVal THEN NoneVal ELSE deserialize_data(stored)

\* RunError without the guard of main.py line 49: session_state.get on None
RunError_NoAbsentGuard(session_state) ==
    IF session_state = NoneVal THEN "AttributeError"
    ELSE CASE Route(session_state) = "final_report_screen" ->
                  final_report_screen(session_state)
           [] Route(session_state) = "interview_screen" ->
                  IF HasCurrentQuestion(session_state) THEN "none" ELSE "IndexError"
           [] OTHER -> "none"

\* the exception a run that reads session_state raises before any button is
\* handled: IndexError in interview_screen, TypeError in final_report_screen
RunError(session_state) ==
    CASE Route(session_state) = "final_report_screen" -> final_report_screen(session_state)
      [] Route(session_state) = "interview_screen" ->
             IF HasCurrentQuestion(session_state) THEN "none" ELSE "IndexError"
      [] OTHER -> "none"

\* the run of tab c ends: st.rerun(), an exception, or nothing left to do
EndRun(c, exc) ==
    /\ pc' = [pc EXCEPT ![c] = "idle"]
    /\ state' = [state EXCEPT ![c] = NoneVal]
    /\ err' = [err EXCEPT ![c] = exc]
    /\ catalogLoad' = [catalogLoad EXCEPT ![c] = "unset"]

\* the run of tab c goes on at position p with the dict st
Goto(c, p, st) ==
    /\ pc' = [pc EXCEPT ![c] = p]
    /\ state' = [state EXCEPT ![c] = st]
    /\ err' = [err EXCEPT ![c] = "none"]

(* ---------------- actions ---------------- *)
\* the 24-hour expiry set by save_session_state removes the entry
Expire ==
    /\ store # NoneVal
    /\ store' = NoneVal
    /\ UNCHANGED <<interview_results, chain, pg_pool, pg_db, pc, state, err,
                   catalogLoad, reportCalls, response, ai_evaluation,
                   questions_file, all_questions, lastUpsert>>

\* the database starts or stops failing
PgStatus ==
    /\ pg_pool
    /\ \E d \in {"up", "getconn", "execute"} : d # pg_db /\ pg_db' = d
    /\ UNCHANGED <<store, interview_results, chain, pg_pool, pc, state, err,
                   catalogLoad, reportCalls, response, ai_evaluation,
                   questions_file, all_questions, lastUpsert>>

\* main() lines 46-62 and the head of the screen it routes to: a script run
\* of tab c starts by reading the stored state
Run(c) ==
    /\ pc[c] = "idle"
    /\ UNCHANGED <<store, interview_results, chain, pg_pool, pg_db, reportCalls, response,
                   ai_evaluation, questions_file, all_questions, lastUpsert>>
    /\ \E redisUp \in BOOLEAN :
         IF ~redisUp
         THEN EndRun(c, "ConnectionError")
         ELSE LET st == get_session_state(store)
                  r == Route(st)
              IN IF RunError(st) # "none" THEN EndRun(c, RunError(st))
                 ELSE IF r \in {"start_screen", "interview_screen"}
                 THEN Goto(c, r, st) /\ UNCHANGED catalogLoad
                 ELSE EndRun(c, "none")

\* the run of tab c ends with no button pressed
Leave(c) ==
    /\ pc[c] \in {"start_screen", "interview_screen"}
    /\ EndRun(c, "none")
    /\ UNCHANGED <<store, interview_results, chain, pg_pool, pg_db, reportCalls, response,
                   ai_evaluation, questions_file, all_questions, lastUpsert>>

\* SessionManager.create_new_session, up to its save
create_new_session(questions) == initial_state(questions)

\* start_screen lines 76-78: load_questions and create_new_session
Start(c) ==
    /\ pc[c] = "start_screen"
    /\ UNCHANGED <<interview_results, chain, pg_pool, pg_db, response, ai_evaluation,
                   questions_file, all_questions,
                   lastUpsert>>
    /\ \E src \in CatalogSources :
         LET lq == load_questions(src)
             failed == src.kind # "list" \/ FirstBad(src.records) # 0
         IN IF lq.raised # "none"
            THEN /\ EndRun(c, lq.raised)
                 /\ UNCHANGED <<store, reportCalls>>
            ELSE \E redisUp \in BOOLEAN :
                 IF ~redisUp
                 THEN /\ EndRun(c, "ConnectionError")
                      /\ UNCHANGED <<store, reportCalls>>
                 ELSE /\ store' = serialize_data(create_new_session(lq.value))
                      /\ reportCalls' = 0
                      /\ Goto(c, "created", create_new_session(lq.value))
                      /\ catalogLoad' =
                           [catalogLoad EXCEPT ![c] = IF failed THEN "failed" ELSE "ok"]

\* start_screen lines 79-82: mark the session started and save it
StartSave(c) ==
    /\ pc[c] = "created"
    /\ UNCHANGED <<interview_results, chain, pg_pool, pg_db, reportCalls, response,
                   ai_evaluation, questions_file, all_questions, lastUpsert>>
    /\ \E redisUp \in BOOLEAN, t \in Times :
         LET st == [state[c] EXCEPT !.interview_started = TRUE, !.start_time = t]
         IN IF redisUp
            THEN /\ store' = serialize_data(st)
                 /\ EndRun(c, "none")
            ELSE /\ UNCHANGED store
                 /\ EndRun(c, "ConnectionError")

\* Advance without line 125: the evaluation is not appended
Advance_NoEvaluation(st, edited, formula, ai) ==
    LET q == st.questions[st.current_question_index + 1] IN
    [st EXCEPT
       !.user_answers = Append(@,
           [question_id |-> q.id, submitted_formula |-> formula,
            final_dataframe |-> edited,
            is_state_correct |-> DataFrameEquals(q.solution_data, edited)]),
       !.current_question_index = @ + 1]

\* Advance that records q_index in place of current_question.id
Advance_IndexAsId(st, edited, formula, ai) ==
    LET q == CurrentQuestion(st) IN
    [st EXCEPT
       !.user_answers = Append(@,
           [question_id |-> st.current_question_index, submitted_formula |-> formula,
            final_dataframe |-> edited,
            is_state_correct |-> DataFrameEquals(q.solution_data, edited)]),
       !.evaluations = Append(@, model_dump(ai)),
       !.current_question_index = @ + 1]

\* interview_screen lines 119-126: the answer and the evaluation are appended
Advance(st, edited, formula, ai) ==
    LET q == CurrentQuestion(st) IN
    [st EXCEPT
       !.user_answers = Append(@,
           [question_id |-> q.id, submitted_formula |-> formula,
            final_dataframe |-> edited,
            is_state_correct |-> DataFrameEquals(q.solution_data, edited)]),
       !.evaluations = Append(@, model_dump(ai)),
       !.current_question_index = @ + 1]

\* interview_screen line 129: the interview is over
IsOver(st) == st.current_question_index >= Len(st.questions)

\* interview_screen lines 130-131
Finish(st, t) == [st EXCEPT !.interview_finished = TRUE, !.end_time = t]

Inc(n) == IF n < MaxReportCalls THEN n + 1 ELSE n

\* SubmitOf with a put of the state right after the answer is appended
\* (line 124), before the evaluation is used
SubmitOf_SaveAnswerFirst(c, tables) ==
    /\ pc[c] = "interview_screen"
    /\ UNCHANGED <<chain, pg_pool, pg_db, response, ai_evaluation,
                   questions_file, all_questions>>
    /\ \E edited \in tables, formula \in Formulas, resp \in Responses,
          t \in Times :
         LET ai == evaluate_formula(chain, resp) IN
         /\ store' = serialize_data(Advance_NoEvaluation(state[c], edited, formula, ai))
         /\ IF ai = NoneVal
            THEN /\ EndRun(c, "AttributeError")
                 /\ UNCHANGED <<interview_results, reportCalls, lastUpsert>>
            ELSE LET st1 == Advance(state[c], edited, formula, ai) IN
                 IF IsOver(st1)
                 THEN LET st2 == Finish(st1, t)
                          rep == save_interview_report(st2, pg_pool,
                                     interview_results, pg_db, t)
                      IN /\ reportCalls' = Inc(reportCalls)
                         /\ interview_results' = rep.table
                         /\ lastUpsert' =
                              IF rep.executed
                              THEN [lastUpsert EXCEPT
                                       ![st2.session_id] = ReportParams(st2, t)]
                              ELSE lastUpsert
                         /\ IF rep.raised # "none"
                            THEN EndRun(c, rep.raised)
                            ELSE Goto(c, "saving", st2) /\ UNCHANGED catalogLoad
                 ELSE /\ Goto(c, "saving", st1)
                      /\ UNCHANGED <<interview_results, reportCalls, catalogLoad,
                                     lastUpsert>>

\* interview_screen lines 109-132: "Submit and Next Task" up to the report
SubmitOf(c, tables) ==
    /\ pc[c] = "interview_screen"
    /\ UNCHANGED <<store, chain, pg_pool, pg_db, response, ai_evaluation,
                   questions_file, all_questions>>
    /\ \E edited \in tables, formula \in Formulas, resp \in Responses,
          t \in Times :
         LET ai == evaluate_formula(chain, resp) IN
         IF ai = NoneVal
         THEN /\ EndRun(c, "AttributeError")
              /\ UNCHANGED <<interview_results, reportCalls, lastUpsert>>
         ELSE LET st1 == Advance(state[c], edited, formula, ai) IN
              IF IsOver(st1)
              THEN LET st2 == Finish(st1, t)
                       rep == save_interview_report(st2, pg_pool,
                                  interview_results, pg_db, t)
                   IN /\ reportCalls' = Inc(reportCalls)
                      /\ interview_results' = rep.table
                      /\ lastUpsert' =
                           IF rep.executed
                           THEN [lastUpsert EXCEPT ![st2.session_id] = ReportParams(st2, t)]
                           ELSE lastUpsert
                      /\ IF rep.raised # "none"
                         THEN EndRun(c, rep.raised)
                         ELSE Goto(c, "saving", st2) /\ UNCHANGED catalogLoad
              ELSE /\ Goto(c, "saving", st1)
                   /\ UNCHANGED <<interview_results, reportCalls, catalogLoad,
                                  lastUpsert>>

\* a submit with one of the tables the candidate leaves in the editor
Submit(c) == SubmitOf(c, EditedTables)

\* SaveState that puts only when the stored index is still the one read
SaveState_CompareAndSet(c) ==
    /\ pc[c] = "saving"
    /\ UNCHANGED <<interview_results, chain, pg_pool, pg_db, reportCalls, response,
                   ai_evaluation, questions_file, all_questions, lastUpsert>>
    /\ \E redisUp \in BOOLEAN :
         IF ~redisUp
         THEN /\ UNCHANGED store
              /\ EndRun(c, "ConnectionError")
         ELSE IF store # NoneVal /\ store.current_question_index + 1
                                       = state[c].current_question_index
         THEN /\ store' = serialize_data(state[c])
              /\ EndRun(c, "none")
         ELSE /\ UNCHANGED store
              /\ EndRun(c, "StateInconsistency")

\* interview_screen lines 135-138: save the updated state and rerun
SaveState(c) ==
    /\ pc[c] = "saving"
    /\ UNCHANGED <<interview_results, chain, pg_pool, pg_db, reportCalls, response,
                   ai_evaluation, questions_file, all_questions, lastUpsert>>
    /\ \E redisUp \in BOOLEAN :
         IF redisUp
         THEN /\ store' = serialize_data(state[c])
              /\ EndRun(c, "none")
         ELSE /\ UNCHANGED store
              /\ EndRun(c, "ConnectionError")

Next ==
    \/ Expire
    \/ PgStatus
    \/ \E c \in Clients : Run(c)
    \/ \E c \in Clients : Leave(c)
    \/ \E c \in Clients : Start(c)
    \/ \E c \in Clients : StartSave(c)
    \/ \E c \in Clients : Submit(c)
    \/ \E c \in Clients : SaveState(c)

Spec == Init /\ [][Next]_vars

(* ---------------- the evaluator on its own ---------------- *)
\* every backend behaviour: the call raises, the parser rejects the text, or
\* a JSON object comes back with or without a score, in or out of range
AllResponses ==
    { [type |-> ty, kind |-> "dict", has_score |-> FALSE, score |-> 0,
       is_correct |-> FALSE, feedback |-> ""] : ty \in {"raises", "unparseable"} }
    \cup [type : {"json"}, kind : {"dict"}, has_score : BOOLEAN,
          score : (ScoreMin - 1)..(ScoreMax + 1), is_correct : BOOLEAN,
          feedback : {"fb", "fb2"}]

\* excel_agent.evaluate_formula is called with a backend that behaves as resp
Evaluate ==
    /\ \E resp \in AllResponses :
         /\ response' = resp
         /\ ai_evaluation' = evaluate_formula(chain, resp)
    /\ UNCHANGED <<store, interview_results, chain, pg_pool, pg_db, pc, state, err,
                   catalogLoad, reportCalls, lastUpsert,
                   questions_file, all_questions>>

SpecEval == Init /\ [][Evaluate]_vars

(* ---------------- the report upsert on its own ---------------- *)
\* finished one-question sessions as json.dumps hands them to the statement
ReportStates ==
    { serialize_data(
         Finish(Advance([create_new_session(<<NewQuestion(1)>>) EXCEPT
                            !.interview_started = TRUE, !.start_time = t0,
                            !.session_id = sid],
                        SolutionTable, "=SUM(A:A)", ev), t0)) :
      sid \in SessionIds, t0 \in ReportTimes,
      ev \in {SentinelEvaluation, [SentinelEvaluation EXCEPT !.score = 4]} }

\* cur.execute(sql, params) of save_interview_report commits
UpsertReport ==
    /\ \E st \in ReportStates, t \in ReportTimes :
         /\ interview_results' = Upsert(interview_results, ReportParams(st, t))
         /\ lastUpsert' = [lastUpsert EXCEPT ![st.session_id] = ReportParams(st, t)]
    /\ UNCHANGED <<store, chain, pg_pool, pg_db, pc, state, err, catalogLoad,
                   reportCalls, response, ai_evaluation,
                   questions_file, all_questions>>

SpecUpsert == Init /\ [][UpsertReport]_vars

(* ---------------- the question loader on its own ---------------- *)
\* contents of data/questions.json: absent, not JSON, or a list of records
LoadSources ==
    {[kind |-> "missing", records |-> <<>>], [kind |-> "bad_json", records |-> <<>>]}
    \cup {[kind |-> "list", records |-> r] :
             r \in UNION {[1..n -> RecordKinds] : n \in 0..MaxLoadRecords}}

\* load_questions() is called on a file with the content src
Load ==
    /\ \E src \in LoadSources :
         /\ questions_file' = src
         /\ all_questions' = load_questions(src)
    /\ UNCHANGED <<store, interview_results, chain, pg_pool, pg_db, pc, state, err,
                   catalogLoad, reportCalls, response, ai_evaluation, lastUpsert>>

SpecLoad == Init /\ [][Load]_vars

(* ---------------- the table check on its own ---------------- *)
\* columns the data editor can hold: either name, either dtype, and cells
\* equal to or differing in one cell from those of the solution
ColumnPool ==
    [name : {"A", "B"}, dtype : {"int64", "float64"},
     cells : {<<1, 2>>, <<3, 4>>, <<3, 5>>}]

\* edited tables of one or two columns with distinct names
AllTables ==
    {<<x>> : x \in ColumnPool}
    \cup {t \in {<<x, y>> : x \in ColumnPool, y \in ColumnPool} :
              t[1].name # t[2].name}

\* a started session of MaxQuestions questions, as start leaves it
StartedState ==
    [create_new_session([i \in 1..MaxQuestions |-> NewQuestion(i)]) EXCEPT
        !.interview_started = TRUE, !.start_time = "T1"]

\* every tab has read the started session and shows its first question
InitTable ==
    /\ store = serialize_data(StartedState)
    /\ interview_results = {}
    /\ chain \in BOOLEAN
    /\ pg_pool \in BOOLEAN
    /\ pg_db = "up"
    /\ pc = [c \in Clients |-> "interview_screen"]
    /\ state = [c \in Clients |-> get_session_state(serialize_data(StartedState))]
    /\ err = [c \in Clients |-> "none"]
    /\ catalogLoad = [c \in Clients |-> "unset"]
    /\ reportCalls = 0
    /\ response = Unset
    /\ ai_evaluation = Unset
    /\ lastUpsert = [s \in SessionIds |-> NoneVal]
    /\ questions_file = Unset
    /\ all_questions = Unset

\* "Submit and Next Task" with any table in the editor
TableSubmit == \E c \in Clients : SubmitOf(c, AllTables)

SpecTable == InitTable /\ [][TableSubmit]_vars

(* ---------------- properties ---------------- *)
IsFinished(doc) == doc # NoneVal /\ doc.interview_finished

\* the run of tab c is about to handle a submit of the last question
AtLastQuestion(c) ==
    /\ pc[c] = "interview_screen"
    /\ state[c].current_question_index + 1 = Len(state[c].questions)

\* C1: in every state the Session Store holds, the number of user_answers
\* equals the number of evaluations and both equal current_question_index.
C1_LengthsEqualIndex ==
    store # NoneVal =>
        /\ Len(store.user_answers) = Len(store.evaluations)
        /\ Len(store.evaluations) = store.current_question_index

\* a submit has been stored
C1_Witness ==
    /\ store # NoneVal
    /\ store.current_question_index >= 1
    /\ Len(store.user_answers) >= 1

\* C2: in every state the Session Store holds, interview_finished is true
\* exactly when current_question_index equals the number of questions (for
\* every catalog size, zero included), and the index lies in 0..len(questions).
C2_FinishedIffIndexAtEnd ==
    store # NoneVal =>
        /\ store.interview_finished <=>
               (store.current_question_index = Len(store.questions))
        /\ store.current_question_index >= 0
        /\ store.current_question_index <= Len(store.questions)

\* C3: once the Session Store holds a finished state, no later save of a
\* submit (also of one that read the state before the finish) changes its
\* answers, evaluations, index or finished flag.
C3_FinishedIsTerminal ==
    [][(IsFinished(store) /\ store' # NoneVal
          /\ \E c \in Clients : pc[c] = "saving" /\ pc'[c] = "idle") =>
          /\ store'.user_answers = store.user_answers
          /\ store'.evaluations = store.evaluations
          /\ store'.current_question_index = store.current_question_index
          /\ store'.interview_finished]_vars

\* C4: with both stores reachable, a submit on an in-progress session never
\* ends in an exception, whatever the evaluator backend does, and its save
\* stores the index it read plus one.
C4_SubmitAlwaysAdvances ==
    [][\A c \in Clients :
          /\ (pc[c] = "interview_screen" /\ pc'[c] = "idle"
                 /\ pg_pool /\ pg_db = "up") => err'[c] = "none"
          /\ (pc[c] = "saving" /\ pc'[c] = "idle" /\ err'[c] = "none") =>
                 store' # NoneVal
                 /\ store'.current_question_index = state[c].current_question_index
      ]_vars

\* the backend condition under which the fallback result is due
BadResponse(resp) == resp.type # "json" \/ ~EvaluationValid(resp)

C6_EndToEnd ==
    [][\A c \in Clients :
          (AtLastQuestion(c) /\ chain /\ pg_pool /\ pg_db = "up"
              /\ (\A d \in Clients \ {c} : pc[d] = "idle")
              /\ pc'[c] # "interview_screen") =>
             \/ pc'[c] = "idle" /\ err'[c] = "none"
             \/ /\ pc'[c] = "saving"
                /\ state'[c].interview_finished
                /\ Len(state'[c].evaluations) = Len(state'[c].questions)
                /\ \E r \in interview_results' :
                     /\ r.session_id = SessionId
                     /\ r.final_score = Mean(Scores(state'[c].evaluations))
                     /\ Len(r.feedback_summary) = Len(state'[c].evaluations)
      ]_vars

\* C7: over the life of a session save_interview_report is invoked at most
\* once, and only by the submit that makes the session finished.
C7_ReportInvokedOnce ==
    /\ reportCalls <= 1
    /\ reportCalls = 1 =>
          \/ IsFinished(store)
          \/ \E c \in Clients : pc[c] = "saving" /\ state[c].interview_finished

\* C8: after any sequence of upserts the table holds exactly one row per
\* upserted session_id and every column of it is the one of the last upsert.
C8_UpsertReplacesInFull ==
    \A sid \in SessionIds :
        lastUpsert[sid] # NoneVal =>
            /\ Cardinality({r \in interview_results : r.session_id = sid}) = 1
            /\ \A r \in interview_results :
                   r.session_id = sid => r = lastUpsert[sid]

\* C9: when the Report Store is unavailable or its write fails during the
\* submit of the last question, the submit does not raise and goes on to
\* save the finished state.
C9_ReportFailureSwallowed ==
    [][\A c \in Clients :
          (AtLastQuestion(c) /\ chain /\ (~pg_pool \/ pg_db # "up")
              /\ pc'[c] = "idle") => err'[c] = "none"
      ]_vars

\* C10: when loading the catalog fails, start creates no session.
C10_NoSessionOnLoadFailure ==
    \A c \in Clients : pc[c] = "created" => catalogLoad[c] = "ok"

\* C11: when the catalog is empty, start leaves the session finished: the
\* started state the Session Store holds has interview_finished true and no
\* answers or evaluations, and a read of it is routed to the final report
\* and not to the task screen.
C11_EmptyCatalogFinished ==
    (store # NoneVal /\ store.interview_started /\ Len(store.questions) = 0) =>
        /\ store.interview_finished
        /\ Len(store.user_answers) = 0
        /\ Len(store.evaluations) = 0
        /\ Route(get_session_state(store)) = "final_report_screen"

\* the file is a list holding at least one valid record and at least one
\* record that is malformed or not a valid question
MixedSource(src) ==
    /\ src.kind = "list"
    /\ \E i \in 1..Len(src.records) : src.records[i] = "ok"
    /\ \E i \in 1..Len(src.records) : src.records[i] # "ok"

\* C12: for every source with at least one malformed or invalid record among
\* valid ones, load_questions fails as a whole (it raises) and does not
\* return a list, in particular not the list of the valid records only.
C12_LoadAllOrNothing ==
    (questions_file # Unset /\ MixedSource(questions_file)) =>
        /\ all_questions.raised # "none"
        /\ all_questions.value = <<>>

\* C13: a run that reads the Session Store and finds no entry, because the
\* entry expired (also while the session was in progress) or was never
\* created, is routed to the start screen with no state and no error; the
\* only way such a run ends otherwise is the store being unreachable.
C13_AbsentReadIsStart ==
    [][\A c \in Clients :
          (pc[c] = "idle" /\ store = NoneVal) =>
             /\ pc'[c] \in {"idle", "start_screen"}
             /\ err'[c] \in {err[c], "none", "ConnectionError"}
             /\ pc'[c] = "start_screen" =>
                    (err'[c] = "none" /\ state'[c] = NoneVal /\ store' = NoneVal)
      ]_vars

\* a session was created and had its last question submitted, its entry
\* has expired since, and every tab, the one that created the session
\* included, has read the store again and stands on the start screen
C13_Witness ==
    /\ store = NoneVal
    /\ reportCalls >= 1
    /\ \A c \in Clients : pc[c] = "start_screen" /\ err[c] = "none"

\* C14: the save of a submit never fails because another submit wrote the
\* entry in between (the only error is the store being unreachable), and
\* after it the Session Store holds exactly the state that submit computed
\* from its own read: when two submits read the same state before either
\* wrote, both complete, and the entry is the one of the last put, with the
\* index that was read advanced by one, not two, and nothing of the other
\* submit's answer or evaluation.
C14_LastPutWins ==
    [][\A c \in Clients :
          (pc[c] = "saving" /\ pc'[c] = "idle") =>
             /\ err'[c] \in {"none", "ConnectionError"}
             /\ err'[c] = "none" =>
                    /\ store' = serialize_data(state[c])
                    /\ Len(store'.user_answers) = store'.current_question_index
                    /\ \A d \in Clients \ {c} :
                          (pc[d] = "saving" /\ state[d].current_question_index
                                                 = state[c].current_question_index) =>
                             store'.current_question_index
                                 = state[d].current_question_index
      ]_vars

\* two submits read the same state; the first has completed without error
\* and its state is stored, the second holds a different answer for the same
\* index and is about to put it
C14_Witness ==
    \E c, d \in Clients :
        /\ c # d
        /\ pc[c] = "idle" /\ err[c] = "none"
        /\ pc[d] = "saving"
        /\ store # NoneVal
        /\ store.current_question_index = state[d].current_question_index
        /\ store.current_question_index >= 1
        /\ store.user_answers # serialize_data(state[d]).user_answers

\* C15: while the entry exists, no put, of start or of a submit in any
\* interleaving, replaces the stored current_question_index by a lower one.
C15_IndexNeverDecreases ==
    [][(store # NoneVal /\ store' # NoneVal) =>
          store'.current_question_index >= store.current_question_index]_vars

\* C16: a submit whose put finds the session already finished, or at an
\* index other than the one the submit was prepared for, fails with an
\* error and leaves the Session Store and the Report Store unchanged.
C16_StaleSubmitRejected ==
    [][\A c \in Clients :
          (/\ pc[c] = "saving" /\ pc'[c] = "idle"
           /\ store # NoneVal
           /\ \/ store.interview_finished
              \/ store.current_question_index + 1 # state[c].current_question_index)
          => (err'[c] # "none" /\ store' = store
                 /\ interview_results' = interview_results)
      ]_vars

\* the exception of the report derivation (score mean, feedback list,
\* json.dumps of the transcript) on a state, the database being reachable
ReportDerivation(session_state) ==
    save_interview_report(session_state, TRUE, {}, "up", "T1").raised

\* C17: for every state a submit hands to save_session_state, an immediate
\* get_session_state returns a state equal to it in every field, and the
\* report derivation and the report screen behave on the returned state
\* exactly as on the state before the round trip.
C17_RoundTrip ==
    [][\A c \in Clients :
          (pc[c] = "saving" /\ pc'[c] = "idle" /\ err'[c] = "none") =>
             LET back == get_session_state(store') IN
             /\ back = state[c]
             /\ ReportDerivation(back) = ReportDerivation(state[c])
             /\ final_report_screen(back) = final_report_screen(state[c])
      ]_vars

\* equality of two tables in column set, column order and every cell value
ValueEqual(a, b) ==
    /\ Len(a) = Len(b)
    /\ \A i \in 1..Len(a) : a[i].name = b[i].name /\ a[i].cells = b[i].cells

\* C18: the is_state_correct recorded by a submit is true exactly when the
\* edited table equals the solution table of the question in column set,
\* column order and every cell value, and whatever the flag is, the submit
\* advances the session by one question.
C18_StateCheckExact ==
    \A c \in Clients :
        pc[c] = "saving" =>
            LET n == Len(state[c].user_answers)
                answer == state[c].user_answers[n]
            IN /\ answer.is_state_correct <=>
                      ValueEqual(state[c].questions[n].solution_data,
                                 answer.final_dataframe)
               /\ state[c].current_question_index = n
               /\ Len(state[c].evaluations) = n

\* C19: every state the Session Store holds, the one between the two puts
\* of start and the one of an empty catalog included, is routed by a run
\* that reads it to the start screen, to the task screen of a question that
\* exists, or to the final report, and the screen is rendered without error.
C19_NoStuckState ==
    store # NoneVal =>
        /\ Route(get_session_state(store)) \in
               {"start_screen", "interview_screen", "final_report_screen"}
        /\ RunError(get_session_state(store)) = "none"

\* C21: a submit that ends in an exception, because the evaluator result
\* is unusable, the report step raises or the put itself fails, leaves the
\* Session Store entry exactly as it was before the submit; no step stores
\* an answer without its evaluation or an index ahead of the answers.
C21_FailedSubmitLeavesStore ==
    [][/\ \A c \in Clients :
             (pc[c] \in {"interview_screen", "saving"} /\ pc'[c] = "idle"
                 /\ err'[c] # "none") => store' = store
       /\ store' # NoneVal =>
             /\ Len(store'.user_answers) = Len(store'.evaluations)
             /\ store'.current_question_index = Len(store'.user_answers)
      ]_vars

\* the last run of a tab was a submit that ended in the AttributeError of
\* line 125 or of the report derivation, after the answer had been appended
\* in memory, and the entry is the unfinished one with as many answers as
\* its index says
C21_Witness ==
    \E c \in Clients :
        /\ pc[c] = "idle" /\ err[c] = "AttributeError"
        /\ store # NoneVal
        /\ store.interview_started /\ ~store.interview_finished
        /\ Len(store.user_answers) = store.current_question_index
        /\ Len(store.evaluations) = store.current_question_index

\* every answer of the state stands at the position of the question it
\* answers
Aligned(st) ==
    /\ Len(st.user_answers) <= Len(st.questions)
    /\ \A i \in 1..Len(st.user_answers) :
           st.user_answers[i].question_id = st.questions[i].id

\* the list is a catalog as load_questions returned it and create_new_session
\* stored it: the questions in file order, none dropped, added or changed
IsStoredCatalog(questions) ==
    questions = DumpAll([i \in 1..Len(questions) |-> NewQuestion(i)])

====
